---- MODULE Spec2Model ----
(***************************************************************************)
(* Model of the two scripts of the repository:                             *)
(*   send_orders.py    - the producer (main, send_orders)                  *)
(*   receive_orders.py - the consumer (main, receive_events, _on_event)    *)
(* The broker client (azure.eventhub) is an external collaborator: its     *)
(* calls are modelled by their possible outcomes.                          *)
(*                                                                         *)
(* Python values:                                                          *)
(*   str          a sequence of one-character strings                      *)
(*   Optional[T]  None == <<>> and Some(v) == <<v>>                        *)
(***************************************************************************)
EXTENDS Integers, Sequences, FiniteSets, TLC

\* ------------------------------------------------------------------ bounds
\* number of partitions of the stream
NumPartitions == 2
\* events the broker holds for delivery in a consumer run
MaxAvailable == 2
\* largest --max-events / --count value tried
MaxBudget == 2
\* error callbacks the broker client may make in one run
MaxErrors == 1
\* send attempts after which an unbounded producer run is cut off
MaxSends == 3

\* ------------------------------------------------------------- Python str
None == <<>>
Some(v) == <<v>>
IsNone(o) == Len(o) = 0
Val(o) == o[1]

Whitespace == {" ", "\t", "\n"}

RECURSIVE LStripChars(_, _)
\* str.lstrip(chars)
LStripChars(s, chars) ==
    IF Len(s) > 0 /\ Head(s) \in chars THEN LStripChars(Tail(s), chars) ELSE s

RECURSIVE RStripChars(_, _)
\* str.rstrip(chars)
RStripChars(s, chars) ==
    IF Len(s) > 0 /\ s[Len(s)] \in chars
    THEN RStripChars(SubSeq(s, 1, Len(s) - 1), chars)
    ELSE s

\* str.strip(chars)
StripChars(s, chars) == RStripChars(LStripChars(s, chars), chars)

\* str.strip()
Strip(s) == StripChars(s, Whitespace)

\* str.lstrip()
LStrip(s) == LStripChars(s, Whitespace)

\* str.lower(), on the letters the model's strings use
LowerChar(c) ==
    CASE c = "E" -> "e" [] c = "N" -> "n" [] c = "T" -> "t" [] c = "I" -> "i"
      [] c = "Y" -> "y" [] c = "P" -> "p" [] c = "A" -> "a" [] c = "H" -> "h"
      [] c = "X" -> "x" [] c = "O" -> "o" [] c = "R" -> "r"
      [] OTHER -> c

Lower(s) == [i \in 1..Len(s) |-> LowerChar(s[i])]

\* str.startswith(prefix)
StartsWith(s, prefix) ==
    /\ Len(s) >= Len(prefix)
    /\ SubSeq(s, 1, Len(prefix)) = prefix

\* index of the first occurrence of character c in s, 0 when absent
FirstIndex(s, c) ==
    IF \E i \in 1..Len(s) : s[i] = c
    THEN CHOOSE i \in 1..Len(s) : s[i] = c /\ \A j \in 1..(i - 1) : s[j] # c
    ELSE 0

RECURSIVE Split(_, _)
\* str.split(sep) for a one-character separator
Split(s, sep) ==
    LET i == FirstIndex(s, sep)
    IN IF i = 0 THEN <<s>>
       ELSE <<SubSeq(s, 1, i - 1)>> \o Split(SubSeq(s, i + 1, Len(s)), sep)

\* str.split(sep, 1) of a string that contains sep: <<before, after>>
Split1(s, sep) ==
    LET i == FirstIndex(s, sep)
    IN <<SubSeq(s, 1, i - 1), SubSeq(s, i + 1, Len(s))>>

\* ------------------------------------------------------- string constants
ENV_SEND == <<"E","V","E","N","T","H","U","B","_","S","E","N","D","_","C","O","N","N","E","C","T","I","O","N","_","S","T","R","I","N","G">>
ENV_RECEIVE == <<"E","V","E","N","T","H","U","B","_","R","E","C","E","I","V","E","_","C","O","N","N","E","C","T","I","O","N","_","S","T","R","I","N","G">>
ENV_SHARED == <<"E","V","E","N","T","H","U","B","_","C","O","N","N","E","C","T","I","O","N","_","S","T","R","I","N","G">>
ENTITYPATH_EQ == <<"e","n","t","i","t","y","p","a","t","h","=">>
EXPORT_SP == <<"e","x","p","o","r","t"," ">>
\* the characters U+201C, U+201D, U+2018, U+2019, each written by its code point
QuoteChars == {"u201c", "u201d", "u2018", "u2019"}

\* ---------------------------------------------------- extract_entity_path
RECURSIVE EntityOfSegments(_)
\* the loop of extract_entity_path over the segments: Some(entity) on return,
\* None when the loop ends without returning
EntityOfSegments(segments) ==
    IF Len(segments) = 0 THEN None
    ELSE LET segment == Head(segments)
         IN IF StartsWith(Lower(Strip(segment)), ENTITYPATH_EQ)
               /\ Len(Strip(Split1(segment, "=")[2])) > 0
            THEN Some(Strip(Split1(segment, "=")[2]))
            ELSE EntityOfSegments(Tail(segments))

\* an extract_entity_path that goes through the segments from the last one
extract_entity_pathFromLast(connection_str) ==
    LET segments == Split(connection_str, ";")
    IN EntityOfSegments([i \in 1..Len(segments) |-> segments[Len(segments) + 1 - i]])

\* extract_entity_path(connection_str): Some(entity), or None for the
\* ValueError "Connection string does not contain an EntityPath segment"
extract_entity_path(connection_str) ==
    EntityOfSegments(Split(connection_str, ";"))

\* ------------------------------------------------ _load_dotenv_if_present
\* an assignment `os.environ[key] = value` in place of setdefault
SetDefaultOverwrite(env, key, value) == (key :> value) @@ env

\* os.environ.setdefault(key, value)
SetDefault(env, key, value) ==
    IF key \in DOMAIN env THEN env ELSE env @@ (key :> value)

\* one iteration of the loop over the lines of the file
LoadLine(env, raw_line) ==
    LET line0 == Strip(raw_line)
        line1 == IF StartsWith(Lower(line0), EXPORT_SP)
                 THEN LStrip(SubSeq(line0, 8, Len(line0)))
                 ELSE line0
        kv    == Split1(line1, "=")
        key   == Strip(kv[1])
        value == StripChars(StripChars(StripChars(Strip(kv[2]), {"\""}), {"'"}),
                            QuoteChars)
    IN IF Len(line0) = 0 \/ StartsWith(line0, <<"#">>) THEN env
       ELSE IF FirstIndex(line1, "=") = 0 THEN env
       ELSE IF Len(key) = 0 THEN env
       ELSE SetDefault(env, key, value)

RECURSIVE LoadLines(_, _)
LoadLines(env, lines) ==
    IF Len(lines) = 0 THEN env
    ELSE LoadLines(LoadLine(env, Head(lines)), Tail(lines))

\* _load_dotenv_if_present: file is None when the path does not exist
\* (FileNotFoundError), else Some(lines)
_load_dotenv_if_present(env, file) ==
    IF IsNone(file) THEN env ELSE LoadLines(env, Val(file))

\* ---------------------------------------------- resolve_connection_string
\* os.getenv(name)
GetEnv(env, name) == IF name \in DOMAIN env THEN Some(env[name]) ELSE None

\* `value and value.strip()` of an Optional[str]
NonBlank(o) == ~IsNone(o) /\ Len(Val(o)) > 0 /\ Len(Strip(Val(o))) > 0

\* the role-specific variable of each script, then the shared one
EnvNames(scr) ==
    IF scr = "send" THEN <<ENV_SEND, ENV_SHARED>> ELSE <<ENV_RECEIVE, ENV_SHARED>>

\* a resolver that looks at the shared variable before the role-specific one
resolve_connection_stringSharedFirst(scr, cli, env, file) ==
    IF NonBlank(cli) THEN [env |-> env, result |-> Some(Strip(Val(cli)))]
    ELSE LET env2  == _load_dotenv_if_present(env, file)
             names == EnvNames(scr)
         IN [env |-> env2,
             result |->
                 IF NonBlank(GetEnv(env2, names[2]))
                 THEN Some(Strip(env2[names[2]]))
                 ELSE IF NonBlank(GetEnv(env2, names[1]))
                 THEN Some(Strip(env2[names[1]]))
                 ELSE None]

\* resolve_connection_string: [env: the environment afterwards,
\* result: Some(connection string), or None for the ValueError]
resolve_connection_string(scr, cli, env, file) ==
    IF NonBlank(cli) THEN [env |-> env, result |-> Some(Strip(Val(cli)))]
    ELSE LET env2  == _load_dotenv_if_present(env, file)
             names == EnvNames(scr)
         IN [env |-> env2,
             result |->
                 IF NonBlank(GetEnv(env2, names[1]))
                 THEN Some(Strip(env2[names[1]]))
                 ELSE IF NonBlank(GetEnv(env2, names[2]))
                 THEN Some(Strip(env2[names[2]]))
                 ELSE None]

\* ------------------------------------------------------------------ inputs
\* connection secrets: with an EntityPath segment, without one, with an empty
\* one, and one whose EntityPath key is written in another case with padding
CS_FULL == <<"E","n","d","p","o","i","n","t","=","s","b",":","/","/","x",";","E","n","t","i","t","y","P","a","t","h","=","o","r","d","e","r","s">>
CS_NOPATH == <<"E","n","d","p","o","i","n","t","=","s","b",":","/","/","x">>
CS_EMPTYPATH == <<"E","n","d","p","o","i","n","t","=","s","b",":","/","/","x",";","E","n","t","i","t","y","P","a","t","h","="," ">>
CS_PADDED == <<" ","E","N","T","I","T","Y","P","A","T","H","="," ","o","2"," ",";","E","n","d","p","o","i","n","t","=","s","b",":","/","/","x">>
HUB_NAME == <<"h","u","b">>

\* store identifiers as they appear in payloads (the second differs in case only)
STORE_NY == <<"N","Y">>
STORE_ny == <<"n","y">>
STORE_CHI == <<"C","H","I">>

\* values of --connection-string
CliValues == {None, Some(<<" ">>), Some(<<" ">> \o CS_FULL \o <<" ">>), Some(CS_NOPATH)}
\* process environments before the run
Environs ==
    {<<>>, ENV_SHARED :> CS_PADDED, ENV_SHARED :> <<>>,
     (ENV_SEND :> CS_NOPATH) @@ (ENV_RECEIVE :> CS_EMPTYPATH) @@ (ENV_SHARED :> CS_FULL)}
\* the .env file beside the script: missing, or its lines
DotenvFiles ==
    {None,
     Some(<< <<"#"," ","c">>,
             EXPORT_SP \o ENV_SHARED \o <<" ","="," ","\"">> \o CS_FULL \o <<"\"">> >>)}
\* values of --event-hub
HubValues == {None, Some(HUB_NAME)}
\* values of --store-id (argparse's append list, as a set), None when not given
StoreIdArgs == {None, Some({<<" ">>}), Some({<<" ","N","Y"," ">>, <<>>})}

\* the configurations of a run: the values main and parse_args start from
Configs ==
    [cli : CliValues, env : Environs, file : DotenvFiles, hub : HubValues,
     ids : StoreIdArgs, budget : (-1)..MaxBudget]
\* the configurations of the runs that exercise the loops
LoopConfigs ==
    [cli : {Some(CS_FULL), Some(CS_NOPATH)}, env : {<<>>}, file : {None},
     hub : {None}, ids : {None, Some({<<" ","N","Y"," ">>, <<>>})},
     budget : (-1)..MaxBudget]

\* further connection secrets: the one of the documentation, and one with a key
\* that only ends in EntityPath, an EntityPath segment without value, one
\* whose value holds an "=", and a later one
CS_KEYED == <<"E","n","d","p","o","i","n","t","=","s","b",":","/","/","x",";","E","n","t","i","t","y","P","a","t","h","=","o","r","d","e","r","s",";","S","h","a","r","e","d","A","c","c","e","s","s","K","e","y","=","k">>
CS_MANY == <<"M","y","E","n","t","i","t","y","P","a","t","h","=","z",";","E","n","t","i","t","y","P","a","t","h","="," ",";","e","n","t","i","t","y","p","a","t","h","=","a","=","b"," ",";","E","n","t","i","t","y","P","a","t","h","=","c">>
ENTITY_ORDERS == <<"o","r","d","e","r","s">>
ENTITY_AB == <<"a","=","b">>
\* lines of .env files
LINE_SHARED_KEYED == ENV_SHARED \o <<"=">> \o CS_KEYED
LINE_SEND_QUOTED == ENV_SEND \o <<"=","'">> \o CS_MANY \o <<"'">>
LINE_RECEIVE_SPACED == <<" ">> \o ENV_RECEIVE \o <<" ","="," ">> \o CS_NOPATH \o <<" ">>
LINE_SEND_AGAIN == ENV_SEND \o <<"=">> \o CS_FULL
LINE_SHARED_EMPTY == ENV_SHARED \o <<"=">>
LINE_NO_KEY == <<"=">> \o CS_FULL
LINE_NO_EQUALS == <<"E","V","E","N","T","H","U","B","_","C","O","N","N","E","C","T","I","O","N","_","S","T","R","I","N","G">>
\* the inputs of the start of a run, up to the construction of the client
StartupCli == CliValues \cup {Some(CS_KEYED), Some(CS_MANY)}
StartupEnvirons ==
    Environs \cup
    {(ENV_SEND :> <<" ">>) @@ (ENV_RECEIVE :> <<" ">>) @@ (ENV_SHARED :> CS_MANY)}
StartupFiles ==
    DotenvFiles \cup
    {Some(<<LINE_SHARED_KEYED>>),
     Some(<<LINE_NO_EQUALS, LINE_SEND_QUOTED, LINE_NO_KEY, LINE_RECEIVE_SPACED,
            LINE_SEND_AGAIN, LINE_SHARED_EMPTY, LINE_SHARED_KEYED>>)}
StartupHubs == HubValues \cup {Some(<<>>)}
StartupConfigs ==
    [cli : StartupCli, env : StartupEnvirons, file : StartupFiles,
     hub : StartupHubs, ids : {None}, budget : {1}]

\* values of <<--min-delay, --max-delay>>
DelayRanges == {<<0, 1>>, <<1, 1>>, <<2, 1>>}

Partitions == 1..NumPartitions

\* event bodies as json.loads sees them: [json: the text parses, dict: the
\* parsed value is a dict, store_id: payload.get("store_id")]
Bodies ==
    {[json |-> TRUE, dict |-> TRUE, store_id |-> Some(STORE_NY)],
     [json |-> TRUE, dict |-> TRUE, store_id |-> Some(STORE_ny)],
     [json |-> TRUE, dict |-> TRUE, store_id |-> None],
     [json |-> TRUE, dict |-> FALSE, store_id |-> None],
     [json |-> FALSE, dict |-> FALSE, store_id |-> None]}

\* ------------------------------------------------------------------- state
VARIABLES
    script,         \* "send" or "receive": which script runs
    pc,             \* position of the main thread
    rc,             \* Some(value main returned), None before it returns
    raised,         \* exception that propagated out of main, "none" otherwise
    cli_value,      \* args.connection_string
    environ,        \* os.environ
    dotenv,         \* the .env file
    event_hub,      \* args.event_hub
    connection_str, \* result of resolve_connection_string
    client,         \* broker client: "none", "open", "closed"
    closes,         \* number of times the client was closed
    stderr,         \* number of messages written to standard error
    notice,         \* "Stopped by user." was printed
    store_ids,      \* args.store_ids
    max_events,     \* args.max_events
    store_filter,   \* receive_events.store_filter
    remaining,      \* receive_events.remaining
    stop_event,     \* receive_events.stop_event
    cb,             \* per partition: the _on_event invocation in progress
    delivered,      \* per partition: events handed to _on_event
    checkpoint,     \* per partition: sequence number of the last checkpoint
    nCkpt,          \* per partition: number of update_checkpoint calls
    printed,        \* events printed by on_event
    warned,         \* [WARN] lines printed by on_event
    decs,           \* number of completed `remaining -= 1` statements
    available,      \* events the broker still holds
    errors,         \* number of _on_error calls
    min_delay, max_delay, count,   \* arguments of send_orders
    sent,           \* send_orders.sent
    batch,          \* events in send_orders.batch
    attempts,       \* send_batch calls made
    events_out,     \* events in the batches handed to send_batch
    accepted,       \* send_batch calls that returned
    confirmed,      \* confirmation lines printed
    order,          \* send_orders.order: the record build_order_event returned
    rng,            \* state of the generator of the random module
    exc             \* exception in flight in send_orders, "none" otherwise

consumerVars ==
    <<store_ids, max_events, store_filter, remaining, stop_event, cb, delivered,
      checkpoint, nCkpt, printed, warned, decs, available, errors>>
producerVars ==
    <<min_delay, max_delay, count, sent, batch, attempts, events_out, accepted,
      confirmed, order, rng, exc>>
mainVars ==
    <<script, pc, rc, raised, cli_value, environ, dotenv, event_hub,
      connection_str, client, closes, stderr, notice>>
vars == <<mainVars, consumerVars, producerVars>>

IdleCb == [pc |-> "idle", processed |-> FALSE, tmp |-> 0]

\* --------------------------------------------------------------------- Init
\* the state before main runs: scr the script, cfgs the configurations,
\* avail the number of events the broker holds, seeds the states the random
\* generator may start in
InitWith(scrs, cfgs, avail, seeds) ==
    /\ script \in scrs
    /\ pc = "main"
    /\ rc = None
    /\ raised = "none"
    /\ \E c \in cfgs :
          /\ cli_value = c.cli
          /\ environ = c.env
          /\ dotenv = c.file
          /\ event_hub = c.hub
          /\ IF script = "receive"
             THEN /\ store_ids = c.ids
                  /\ max_events = c.budget
                  /\ count = 0
             ELSE /\ store_ids = None
                  /\ max_events = 0
                  /\ count = c.budget
    /\ connection_str = None
    /\ client = "none"
    /\ closes = 0
    /\ stderr = 0
    /\ notice = FALSE
    /\ available = IF script = "receive" THEN avail ELSE 0
    /\ store_filter = None
    /\ remaining = None
    /\ stop_event = FALSE
    /\ cb = [p \in Partitions |-> IdleCb]
    /\ delivered = [p \in Partitions |-> 0]
    /\ checkpoint = [p \in Partitions |-> 0]
    /\ nCkpt = [p \in Partitions |-> 0]
    /\ printed = 0
    /\ warned = 0
    /\ decs = 0
    /\ errors = 0
    /\ IF script = "send"
       THEN \E d \in DelayRanges : min_delay = d[1] /\ max_delay = d[2]
       ELSE min_delay = 0 /\ max_delay = 0
    /\ sent = 0
    /\ batch = 0
    /\ attempts = 0
    /\ events_out = 0
    /\ accepted = 0
    /\ confirmed = 0
    /\ order = None
    /\ rng \in seeds
    /\ exc = "none"

\* ------------------------------------------------------------ main, part 1
\* a main that reports a missing connection string with exit code 1
MainResolveExitOne ==
    /\ pc = "main"
    /\ LET r == resolve_connection_string(script, cli_value, environ, dotenv)
       IN /\ environ' = r.env
          /\ IF IsNone(r.result)
             THEN /\ stderr' = stderr + 1
                  /\ rc' = Some(1)
                  /\ pc' = "exit"
                  /\ UNCHANGED connection_str
             ELSE /\ connection_str' = r.result
                  /\ pc' = IF script = "send" THEN "send_orders" ELSE "receive_events"
                  /\ UNCHANGED <<stderr, rc>>
    /\ UNCHANGED <<script, raised, cli_value, dotenv, event_hub, client, closes, notice>>
    /\ UNCHANGED <<consumerVars, producerVars>>

\* main of either script up to the call of send_orders / receive_events
MainResolve ==
    /\ pc = "main"
    /\ LET r == resolve_connection_string(script, cli_value, environ, dotenv)
       IN /\ environ' = r.env
          /\ IF IsNone(r.result)
             THEN /\ stderr' = stderr + 1
                  /\ rc' = Some(2)
                  /\ pc' = "exit"
                  /\ UNCHANGED connection_str
             ELSE /\ connection_str' = r.result
                  /\ pc' = IF script = "send" THEN "send_orders" ELSE "receive_events"
                  /\ UNCHANGED <<stderr, rc>>
    /\ UNCHANGED <<script, raised, cli_value, dotenv, event_hub, client, closes, notice>>
    /\ UNCHANGED <<consumerVars, producerVars>>

\* ---------------------------------------------------------------- consumer
\* `{s.strip() for s in ids if s and s.strip()} if ids else None`
StripIds(ids) ==
    IF IsNone(ids) \/ Val(ids) = {} THEN None
    ELSE Some({Strip(s) : s \in {x \in Val(ids) : Len(x) > 0 /\ Len(Strip(x)) > 0}})

\* a filter test that ignores case
FilteredOutIgnoreCase(store_id, filter) ==
    IsNone(store_id) \/ Lower(Val(store_id)) \notin {Lower(f) : f \in filter}

\* `store_id not in store_filter`
FilteredOut(store_id, filter) == IsNone(store_id) \/ Val(store_id) \notin filter

\* an on_event that drops a body that is not JSON instead of printing it
on_eventDropNonJson(body, filter) ==
    LET warn == IF body.json THEN 0 ELSE 1
        store_id == IF body.dict THEN body.store_id ELSE None
    IN IF ~body.json
          \/ (~IsNone(filter) /\ Val(filter) # {}
              /\ (IsNone(store_id) \/ Val(store_id) \notin Val(filter)))
       THEN [processed |-> FALSE, printed |-> 0, warned |-> warn]
       ELSE [processed |-> TRUE, printed |-> 1, warned |-> warn]

\* on_event(partition_context, event, store_filter):
\* [processed: the value returned, printed: events printed, warned: [WARN] lines]
on_event(body, filter) ==
    LET warn == IF body.json THEN 0 ELSE 1
        store_id == IF body.dict THEN body.store_id ELSE None
    IN IF ~IsNone(filter) /\ Val(filter) # {} /\ FilteredOut(store_id, Val(filter))
       THEN [processed |-> FALSE, printed |-> 0, warned |-> warn]
       ELSE [processed |-> TRUE, printed |-> 1, warned |-> warn]

\* receive_events from its entry to the call of client.receive
ReceiveEnter ==
    /\ script = "receive" /\ pc = "receive_events"
    /\ LET hub == IF IsNone(event_hub) \/ Len(Val(event_hub)) = 0
                  THEN extract_entity_path(Val(connection_str))
                  ELSE event_hub
       IN /\ event_hub' = IF IsNone(hub) THEN event_hub ELSE hub
          /\ IF IsNone(hub)
                THEN /\ raised' = "ValueError"
                     /\ pc' = "exit"
                     /\ UNCHANGED <<client, store_filter, remaining, stop_event>>
                ELSE \E err \in {"none", "ValueError", "EventHubError"} :
                        IF err # "none"
                        THEN /\ raised' = err
                             /\ pc' = "exit"
                             /\ UNCHANGED <<client, store_filter, remaining, stop_event>>
                        ELSE /\ store_filter' = StripIds(StripIds(store_ids))
                             /\ client' = "open"
                             /\ remaining' = IF max_events > 0 THEN Some(max_events) ELSE None
                             /\ stop_event' = FALSE
                             /\ pc' = "receiving"
                             /\ UNCHANGED raised
    /\ UNCHANGED <<script, rc, cli_value, environ, dotenv, connection_str,
                   closes, stderr, notice>>
    /\ UNCHANGED <<store_ids, max_events, cb, delivered, checkpoint, nCkpt, printed,
                   warned, decs, available, errors>>
    /\ UNCHANGED producerVars

\* the broker client calls _on_event with the next event of partition p, whose
\* body is `body`: `processed = on_event(...)` and the test of line 167
OnEvent(p, body) ==
    /\ pc = "receiving"
    /\ cb[p].pc = "idle"
    /\ available > 0
    /\ delivered' = [delivered EXCEPT ![p] = @ + 1]
    /\ available' = available - 1
    /\ LET r == on_event(body, store_filter)
       IN /\ printed' = printed + r.printed
          /\ warned' = warned + r.warned
          /\ cb' = [cb EXCEPT ![p].processed = r.processed,
                              ![p].pc = IF r.processed /\ ~IsNone(remaining)
                                        THEN "load" ELSE "checkpoint"]
    /\ UNCHANGED <<mainVars, producerVars>>
    /\ UNCHANGED <<store_ids, max_events, store_filter, remaining, stop_event,
                   checkpoint, nCkpt, decs, errors>>

\* `remaining -= 1`: the read of the cell
LoadRemaining(p) ==
    /\ pc = "receiving"
    /\ cb[p].pc = "load"
    /\ cb' = [cb EXCEPT ![p].tmp = Val(remaining), ![p].pc = "store"]
    /\ UNCHANGED <<mainVars, producerVars>>
    /\ UNCHANGED <<store_ids, max_events, store_filter, remaining, stop_event,
                   delivered, checkpoint, nCkpt, printed, warned, decs, available,
                   errors>>

\* the value `remaining -= 1` stores, from the value it read
Decrement(v) == v - 1

\* `remaining -= 1`: the write of the cell
StoreRemaining(p) ==
    /\ pc = "receiving"
    /\ cb[p].pc = "store"
    /\ remaining' = Some(Decrement(cb[p].tmp))
    /\ decs' = decs + 1
    /\ cb' = [cb EXCEPT ![p].pc = "test"]
    /\ UNCHANGED <<mainVars, producerVars>>
    /\ UNCHANGED <<store_ids, max_events, store_filter, stop_event, delivered,
                   checkpoint, nCkpt, printed, warned, available, errors>>

\* a callback that sets the stop signal after every event it counted
TestStopAlways(p) ==
    /\ pc = "receiving"
    /\ cb[p].pc = "test"
    /\ stop_event' = TRUE
    /\ cb' = [cb EXCEPT ![p].pc = "checkpoint"]
    /\ UNCHANGED <<mainVars, producerVars>>
    /\ UNCHANGED <<store_ids, max_events, store_filter, remaining, delivered,
                   checkpoint, nCkpt, printed, warned, decs, available, errors>>

\* `if remaining <= 0: stop_event.set()`
TestStop(p) ==
    /\ pc = "receiving"
    /\ cb[p].pc = "test"
    /\ stop_event' = (stop_event \/ Val(remaining) <= 0)
    /\ cb' = [cb EXCEPT ![p].pc = "checkpoint"]
    /\ UNCHANGED <<mainVars, producerVars>>
    /\ UNCHANGED <<store_ids, max_events, store_filter, remaining, delivered,
                   checkpoint, nCkpt, printed, warned, decs, available, errors>>

\* an _on_event that checkpoints only the events it printed
UpdateCheckpointIfProcessed(p) ==
    /\ pc = "receiving"
    /\ cb[p].pc = "checkpoint"
    /\ checkpoint' = [checkpoint EXCEPT ![p] = IF cb[p].processed THEN delivered[p] ELSE @]
    /\ nCkpt' = [nCkpt EXCEPT ![p] = IF cb[p].processed THEN @ + 1 ELSE @]
    /\ cb' = [cb EXCEPT ![p] = IdleCb]
    /\ UNCHANGED <<mainVars, producerVars>>
    /\ UNCHANGED <<store_ids, max_events, store_filter, remaining, stop_event,
                   delivered, printed, warned, decs, available, errors>>

\* `partition_context.update_checkpoint(event)`, and the return of _on_event
UpdateCheckpoint(p) ==
    /\ pc = "receiving"
    /\ cb[p].pc = "checkpoint"
    /\ checkpoint' = [checkpoint EXCEPT ![p] = delivered[p]]
    /\ nCkpt' = [nCkpt EXCEPT ![p] = @ + 1]
    /\ cb' = [cb EXCEPT ![p] = IdleCb]
    /\ UNCHANGED <<mainVars, producerVars>>
    /\ UNCHANGED <<store_ids, max_events, store_filter, remaining, stop_event,
                   delivered, printed, warned, decs, available, errors>>

\* an _on_error that also asks the receive loop to stop
OnErrorStopping(ctx) ==
    /\ pc = "receiving"
    /\ errors < MaxErrors
    /\ errors' = errors + 1
    /\ stderr' = stderr + 1
    /\ stop_event' = TRUE
    /\ UNCHANGED <<script, pc, rc, raised, cli_value, environ, dotenv, event_hub,
                   connection_str, client, closes, notice>>
    /\ UNCHANGED <<store_ids, max_events, store_filter, remaining, cb,
                   delivered, checkpoint, nCkpt, printed, warned, decs, available>>
    /\ UNCHANGED producerVars

\* the broker client calls _on_error, with a partition context or with None
OnError(ctx) ==
    /\ pc = "receiving"
    /\ errors < MaxErrors
    /\ errors' = errors + 1
    /\ stderr' = stderr + 1
    /\ UNCHANGED <<script, pc, rc, raised, cli_value, environ, dotenv, event_hub,
                   connection_str, client, closes, notice>>
    /\ UNCHANGED <<store_ids, max_events, store_filter, remaining, stop_event, cb,
                   delivered, checkpoint, nCkpt, printed, warned, decs, available>>
    /\ UNCHANGED producerVars

\* client.receive returns because stop_event is set; `with client` closes it
ReceiveStops ==
    /\ pc = "receiving"
    /\ stop_event
    /\ \A p \in Partitions : cb[p].pc = "idle"
    /\ client' = "closed"
    /\ closes' = closes + 1
    /\ rc' = Some(0)
    /\ pc' = "exit"
    /\ UNCHANGED <<script, raised, cli_value, environ, dotenv, event_hub,
                   connection_str, stderr, notice>>
    /\ UNCHANGED <<consumerVars, producerVars>>

\* client.receive raises EventHubError or ValueError
ReceiveFails ==
    /\ pc = "receiving"
    /\ client' = "closed"
    /\ closes' = closes + 1
    /\ stderr' = stderr + 1
    /\ rc' = Some(1)
    /\ pc' = "exit"
    /\ UNCHANGED <<script, raised, cli_value, environ, dotenv, event_hub,
                   connection_str, notice>>
    /\ UNCHANGED <<consumerVars, producerVars>>

\* KeyboardInterrupt during client.receive
ReceiveInterrupted ==
    /\ pc = "receiving"
    /\ client' = "closed"
    /\ closes' = closes + 1
    /\ notice' = TRUE
    /\ rc' = Some(0)
    /\ pc' = "exit"
    /\ UNCHANGED <<script, raised, cli_value, environ, dotenv, event_hub,
                   connection_str, stderr>>
    /\ UNCHANGED <<consumerVars, producerVars>>

ReceiveSteps ==
    \/ ReceiveEnter
    \/ \E p \in Partitions, body \in Bodies : OnEvent(p, body)
    \/ \E p \in Partitions : LoadRemaining(p)
    \/ \E p \in Partitions : StoreRemaining(p)
    \/ \E p \in Partitions : TestStop(p)
    \/ \E p \in Partitions : UpdateCheckpoint(p)
    \/ \E ctx \in {None} \cup {Some(p) : p \in Partitions} : OnError(ctx)
    \/ ReceiveStops
    \/ ReceiveFails
    \/ ReceiveInterrupted

ReceiveNext == MainResolve \/ ReceiveSteps

InitReceive == InitWith({"receive"}, LoopConfigs, MaxAvailable, {0})
SpecReceive == InitReceive /\ [][ReceiveNext]_vars

\* the consumer with its scheduling: main and every callback thread that was
\* started run on, and a client whose stop signal is set (and whose callbacks
\* have returned) leaves client.receive
ReceiveFairness ==
    /\ WF_vars(MainResolve)
    /\ WF_vars(ReceiveEnter)
    /\ \A p \in Partitions :
          WF_vars(LoadRemaining(p) \/ StoreRemaining(p) \/ TestStop(p)
                  \/ UpdateCheckpoint(p))
    /\ WF_vars(ReceiveStops)
SpecReceiveFair == InitReceive /\ [][ReceiveNext]_vars /\ ReceiveFairness

\* -------------------------------------------------------- build_order_event
PRODUCT_CATALOG ==
    << [sku |-> "SKU-1000", name |-> "Wireless Mouse"],
       [sku |-> "SKU-1001", name |-> "Mechanical Keyboard"],
       [sku |-> "SKU-1002", name |-> "27in Monitor"],
       [sku |-> "SKU-1003", name |-> "USB-C Hub"],
       [sku |-> "SKU-1004", name |-> "Noise Cancelling Headphones"] >>
STORE_LOCATIONS ==
    << [store_id |-> "STORE-NY-001", city |-> "New York", region |-> "US-East"],
       [store_id |-> "STORE-CHI-002", city |-> "Chicago", region |-> "US-Central"],
       [store_id |-> "STORE-SF-003", city |-> "San Francisco", region |-> "US-West"],
       [store_id |-> "STORE-LON-004", city |-> "London", region |-> "EU-West"] >>
PAYMENT_METHODS == <<"credit_card", "debit_card", "cash", "mobile_wallet">>
\* `random.randint(1, 5)`
Quantities == <<1, 2, 3, 4, 5>>
\* amounts of money are in thousandths of the currency unit.
\* values of `random.uniform(10.0, 250.0)`: the two ends, values that round
\* down and up to the cent, and one that rounds up to the upper end
UniformDraws == <<10000, 10004, 33336, 199992, 249996, 250000>>

\* `round(x, 2)` of a non-negative amount that is not half-way between two cents
Round2(x) == IF x % 10 < 5 THEN x - (x % 10) ELSE x - (x % 10) + 10

\* the number of generator states that give different draws
NumRandomStates ==
    Len(PRODUCT_CATALOG) * Len(STORE_LOCATIONS) * Len(Quantities) * Len(UniformDraws)
\* the state of the generator after the draws of one build_order_event
NextRandom(r) == (r + 1) % NumRandomStates
\* the draws of one build_order_event when the generator is in state r
RandomDraws(r) ==
    LET r1 == r \div Len(PRODUCT_CATALOG)
        r2 == r1 \div Len(STORE_LOCATIONS)
        r3 == r2 \div Len(Quantities)
    IN [product  |-> PRODUCT_CATALOG[(r % Len(PRODUCT_CATALOG)) + 1],
        location |-> STORE_LOCATIONS[(r1 % Len(STORE_LOCATIONS)) + 1],
        quantity |-> Quantities[(r2 % Len(Quantities)) + 1],
        uniform  |-> UniformDraws[(r3 % Len(UniformDraws)) + 1],
        payment  |-> PAYMENT_METHODS[((r + r2) % Len(PAYMENT_METHODS)) + 1],
        loyalty  |-> (r + r1) % 2 = 0,
        uuid     |-> r,
        now      |-> r]

\* a build_order_event that computes the total from the price before rounding
build_order_eventUnroundedPrice(r) ==
    LET d == RandomDraws(r)
        unit_price  == Round2(d.uniform)
        order_total == Round2(d.uniform * d.quantity)
    IN [order_id |-> d.uuid,
        order_timestamp |-> d.now,
        store_id |-> d.location.store_id,
        store_region |-> d.location.region,
        store_city |-> d.location.city,
        items |-> << [sku |-> d.product.sku,
                      name |-> d.product.name,
                      quantity |-> d.quantity,
                      unit_price |-> unit_price,
                      total_price |-> order_total] >>,
        payment_method |-> d.payment,
        order_total |-> order_total,
        loyalty_member |-> d.loyalty]

\* build_order_event(), the generator being in state r
build_order_event(r) ==
    LET d == RandomDraws(r)
        unit_price  == Round2(d.uniform)
        order_total == Round2(unit_price * d.quantity)
    IN [order_id |-> d.uuid,
        order_timestamp |-> d.now,
        store_id |-> d.location.store_id,
        store_region |-> d.location.region,
        store_city |-> d.location.city,
        items |-> << [sku |-> d.product.sku,
                      name |-> d.product.name,
                      quantity |-> d.quantity,
                      unit_price |-> unit_price,
                      total_price |-> order_total] >>,
        payment_method |-> d.payment,
        order_total |-> order_total,
        loyalty_member |-> d.loyalty]

\* ---------------------------------------------------------------- producer
\* a send_orders that also rejects min_delay = max_delay
SendEnterRejectsEqual ==
    /\ script = "send" /\ pc = "send_orders"
    /\ LET hub == IF IsNone(event_hub) \/ Len(Val(event_hub)) = 0
                  THEN extract_entity_path(Val(connection_str))
                  ELSE event_hub
       IN /\ event_hub' = IF min_delay >= max_delay \/ IsNone(hub)
                         THEN event_hub ELSE hub
          /\ IF min_delay >= max_delay \/ IsNone(hub)
                THEN /\ exc' = "ValueError"
                     /\ pc' = "send_return"
                     /\ UNCHANGED <<client, sent>>
                ELSE \E err \in {"none", "ValueError", "EventHubError"} :
                        IF err # "none"
                        THEN /\ exc' = err
                             /\ pc' = "send_return"
                             /\ UNCHANGED <<client, sent>>
                        ELSE /\ client' = "open"
                             /\ sent' = 0
                             /\ pc' = "loop"
                             /\ UNCHANGED exc
    /\ UNCHANGED <<script, rc, raised, cli_value, environ, dotenv,
                   connection_str, closes, stderr, notice>>
    /\ UNCHANGED <<order, rng, min_delay, max_delay,
                   count, batch, attempts, events_out,
                   accepted, confirmed>>
    /\ UNCHANGED consumerVars

\* send_orders from its entry to the start of the loop: the delay check, the
\* entity path, the client, `sent = 0`
SendEnter ==
    /\ script = "send" /\ pc = "send_orders"
    /\ LET hub == IF IsNone(event_hub) \/ Len(Val(event_hub)) = 0
                  THEN extract_entity_path(Val(connection_str))
                  ELSE event_hub
       IN /\ event_hub' = IF min_delay > max_delay \/ IsNone(hub)
                         THEN event_hub ELSE hub
          /\ IF min_delay > max_delay \/ IsNone(hub)
                THEN /\ exc' = "ValueError"
                     /\ pc' = "send_return"
                     /\ UNCHANGED <<client, sent>>
                ELSE \E err \in {"none", "ValueError", "EventHubError"} :
                        IF err # "none"
                        THEN /\ exc' = err
                             /\ pc' = "send_return"
                             /\ UNCHANGED <<client, sent>>
                        ELSE /\ client' = "open"
                             /\ sent' = 0
                             /\ pc' = "loop"
                             /\ UNCHANGED exc
    /\ UNCHANGED <<script, rc, raised, cli_value, environ, dotenv,
                   connection_str, closes, stderr, notice>>
    /\ UNCHANGED <<order, rng, min_delay, max_delay,
                   count, batch, attempts, events_out,
                   accepted, confirmed>>
    /\ UNCHANGED consumerVars

\* a loop condition that is off by one
LoopContinuesOffByOne(cnt, snt) == cnt <= 0 \/ snt <= cnt

\* `count <= 0 or sent < count`
LoopContinues(cnt, snt) == cnt <= 0 \/ snt < cnt

\* a loop that takes count = 0 for "send nothing"
LoopTestZeroSendsNothing ==
    /\ script = "send" /\ pc = "loop"
    /\ (count < 0 \/ sent < count) => attempts < MaxSends
    /\ pc' = IF count < 0 \/ sent < count THEN "create_batch" ELSE "finally"
    /\ UNCHANGED <<script, rc, raised, cli_value, environ, dotenv, event_hub,
                   connection_str, client, closes, stderr, notice>>
    /\ UNCHANGED <<consumerVars, producerVars>>

\* `while count <= 0 or sent < count`; a run is cut off after MaxSends sends
LoopTest ==
    /\ script = "send" /\ pc = "loop"
    /\ LoopContinues(count, sent) => attempts < MaxSends
    /\ pc' = IF LoopContinues(count, sent) THEN "create_batch" ELSE "finally"
    /\ UNCHANGED <<script, rc, raised, cli_value, environ, dotenv, event_hub,
                   connection_str, client, closes, stderr, notice>>
    /\ UNCHANGED <<consumerVars, producerVars>>

\* build_order_event, EventData, producer.create_batch, batch.add, the
\* [DEBUG] line
CreateBatch ==
    /\ script = "send" /\ pc = "create_batch"
    /\ order' = Some(build_order_event(rng))
    /\ rng' = NextRandom(rng)
    /\ \E err \in {"none", "EventHubError"} :
          /\ exc' = err
          /\ batch' = IF err = "none" THEN 1 ELSE batch
          /\ pc' = IF err = "none" THEN "send" ELSE "finally"
    /\ UNCHANGED <<script, rc, raised, cli_value, environ, dotenv, event_hub,
                   connection_str, client, closes, stderr, notice>>
    /\ UNCHANGED <<min_delay, max_delay, count, sent, attempts, events_out,
                   accepted, confirmed>>
    /\ UNCHANGED consumerVars

\* a send_batch whose failure is swallowed, so that the loop tries again
SendBatchRetry ==
    /\ script = "send" /\ pc = "send"
    /\ attempts' = attempts + 1
    /\ events_out' = events_out + batch
    /\ \E err \in {"none", "EventHubError"} :
          /\ exc' = "none"
          /\ accepted' = IF err = "none" THEN accepted + 1 ELSE accepted
          /\ pc' = IF err = "none" THEN "count" ELSE "loop"
    /\ UNCHANGED <<script, rc, raised, cli_value, environ, dotenv, event_hub,
                   connection_str, client, closes, stderr, notice>>
    /\ UNCHANGED <<order, rng, min_delay, max_delay,
                   count, sent, batch, confirmed>>
    /\ UNCHANGED consumerVars

\* producer.send_batch(batch)
SendBatch ==
    /\ script = "send" /\ pc = "send"
    /\ attempts' = attempts + 1
    /\ events_out' = events_out + batch
    /\ \E err \in {"none", "EventHubError"} :
          /\ exc' = err
          /\ accepted' = IF err = "none" THEN accepted + 1 ELSE accepted
          /\ pc' = IF err = "none" THEN "count" ELSE "finally"
    /\ UNCHANGED <<script, rc, raised, cli_value, environ, dotenv, event_hub,
                   connection_str, client, closes, stderr, notice>>
    /\ UNCHANGED <<order, rng, min_delay, max_delay,
                   count, sent, batch, confirmed>>
    /\ UNCHANGED consumerVars

\* `sent += 1` and the confirmation line
CountSent ==
    /\ script = "send" /\ pc = "count"
    /\ sent' = sent + 1
    /\ confirmed' = confirmed + 1
    /\ pc' = "sleep"
    /\ UNCHANGED <<script, rc, raised, cli_value, environ, dotenv, event_hub,
                   connection_str, client, closes, stderr, notice>>
    /\ UNCHANGED <<order, rng, min_delay, max_delay,
                   count, batch, attempts, events_out,
                   accepted, exc>>
    /\ UNCHANGED consumerVars

\* `time.sleep(random.uniform(min_delay, max_delay))`
Sleep ==
    /\ script = "send" /\ pc = "sleep"
    /\ pc' = "loop"
    /\ UNCHANGED <<script, rc, raised, cli_value, environ, dotenv, event_hub,
                   connection_str, client, closes, stderr, notice>>
    /\ UNCHANGED <<consumerVars, producerVars>>

\* KeyboardInterrupt inside the try block
SendInterrupted ==
    /\ script = "send"
    /\ pc \in {"loop", "create_batch", "send", "count", "sleep"}
    /\ exc' = "KeyboardInterrupt"
    /\ pc' = "finally"
    /\ UNCHANGED <<script, rc, raised, cli_value, environ, dotenv, event_hub,
                   connection_str, client, closes, stderr, notice>>
    /\ UNCHANGED <<order, rng, min_delay, max_delay,
                   count, sent, batch, attempts, events_out,
                   accepted, confirmed>>
    /\ UNCHANGED consumerVars

\* a send_orders that closes the client only when the loop ends normally
FinallyOnlyOnSuccess ==
    /\ script = "send" /\ pc = "finally"
    /\ client' = IF exc = "none" THEN "closed" ELSE client
    /\ closes' = IF exc = "none" THEN closes + 1 ELSE closes
    /\ pc' = "send_return"
    /\ UNCHANGED <<script, rc, raised, cli_value, environ, dotenv, event_hub,
                   connection_str, stderr, notice>>
    /\ UNCHANGED <<consumerVars, producerVars>>

\* `finally: producer.close()`
Finally ==
    /\ script = "send" /\ pc = "finally"
    /\ client' = "closed"
    /\ closes' = closes + 1
    /\ pc' = "send_return"
    /\ UNCHANGED <<script, rc, raised, cli_value, environ, dotenv, event_hub,
                   connection_str, stderr, notice>>
    /\ UNCHANGED <<consumerVars, producerVars>>

\* a main that reports an interruption like a failure
MainSendReturnInterruptFails ==
    /\ script = "send" /\ pc = "send_return"
    /\ IF exc \in {"KeyboardInterrupt", "EventHubError", "ValueError"}
       THEN stderr' = stderr + 1 /\ rc' = Some(1) /\ UNCHANGED notice
       ELSE rc' = Some(0) /\ UNCHANGED <<stderr, notice>>
    /\ pc' = "exit"
    /\ UNCHANGED <<script, raised, cli_value, environ, dotenv, event_hub,
                   connection_str, client, closes>>
    /\ UNCHANGED <<consumerVars, producerVars>>

\* main after send_orders returned or raised: the except clauses and the return
MainSendReturn ==
    /\ script = "send" /\ pc = "send_return"
    /\ IF exc = "KeyboardInterrupt"
       THEN notice' = TRUE /\ rc' = Some(0) /\ UNCHANGED stderr
       ELSE IF exc \in {"EventHubError", "ValueError"}
       THEN stderr' = stderr + 1 /\ rc' = Some(1) /\ UNCHANGED notice
       ELSE rc' = Some(0) /\ UNCHANGED <<stderr, notice>>
    /\ pc' = "exit"
    /\ UNCHANGED <<script, raised, cli_value, environ, dotenv, event_hub,
                   connection_str, client, closes>>
    /\ UNCHANGED <<consumerVars, producerVars>>

SendSteps ==
    \/ SendEnter
    \/ LoopTest
    \/ CreateBatch
    \/ SendBatch
    \/ CountSent
    \/ Sleep
    \/ SendInterrupted
    \/ Finally
    \/ MainSendReturn

SendNext == MainResolve \/ SendSteps

InitSend == InitWith({"send"}, LoopConfigs, 0, {0})
SpecSend == InitSend /\ [][SendNext]_vars

\* the producer over every state the random generator may start in
OrderConfigs ==
    [cli : {Some(CS_FULL)}, env : {<<>>}, file : {None}, hub : {None},
     ids : {None}, budget : {1, MaxBudget}]
InitOrders == InitWith({"send"}, OrderConfigs, 0, 0..(NumRandomStates - 1))
SpecOrders == InitOrders /\ [][SendNext]_vars

\* ------------------------------------------------- the start of a run
\* both scripts from main to the construction of the client, over the
\* connection strings, environments, .env files and --event-hub values
StartupNext == MainResolve \/ SendEnter \/ ReceiveEnter
InitStartup == InitWith({"send", "receive"}, StartupConfigs, 0, {0})
SpecStartup == InitStartup /\ [][StartupNext]_vars

\* ------------------------------------------------------------ both scripts
Init == InitWith({"send", "receive"}, Configs, 1, {0})
Next == MainResolve \/ SendSteps \/ ReceiveSteps
Spec == Init /\ [][Next]_vars

\* ------------------------------------------------------ consumer: claims
FilterActive == ~IsNone(store_filter) /\ Val(store_filter) # {}
Bounded == ~IsNone(remaining)
InFlight(p) == cb[p].pc # "idle"
\* the consumer ended because client.receive returned on the stop signal
StoppedOnBudget ==
    script = "receive" /\ pc = "exit" /\ rc = Some(0) /\ ~notice

\* C1: with max_events = M > 0 and no store filter, a consumer that stops on
\* its budget has printed exactly M events, whatever the interleaving of the
\* callbacks and however many events arrive after stop_event.set().
C1_ExactlyMPrinted ==
    (StoppedOnBudget /\ max_events > 0 /\ ~FilterActive) => printed = max_events

\* C3: with a bounded budget no decrement of `remaining` is lost
\* (max_events - remaining is the number of completed decrements), and the stop
\* signal is set once the callbacks whose decrements reach max_events returned.
C3_NoLostDecrement ==
    (script = "receive" /\ Bounded) =>
        /\ max_events - Val(remaining) = decs
        /\ (decs >= max_events
            /\ \A p \in Partitions : ~(InFlight(p) /\ cb[p].processed))
           => stop_event

\* the body's store_id is in the filter set (exact match of the characters)
InFilter(body) ==
    body.dict /\ ~IsNone(body.store_id) /\ Val(body.store_id) \in Val(store_filter)

\* C4: with a non-empty store filter, an event whose store_id is not in the
\* filter set is not printed, goes straight to the checkpoint without touching
\* the budget and is checkpointed; an event whose store_id is in the set is
\* printed and its callback performs one decrement, storing the value it read
\* less one.
C4_StoreFilter ==
    [][/\ \A p \in Partitions, body \in Bodies :
            (FilterActive /\ ~InFlight(p) /\ cb'[p] # cb[p] /\ OnEvent(p, body)) =>
                IF InFilter(body)
                THEN /\ printed' = printed + 1
                     /\ cb'[p].processed
                     /\ Bounded => cb'[p].pc = "load"
                ELSE /\ printed' = printed
                     /\ ~cb'[p].processed
                     /\ cb'[p].pc = "checkpoint"
                     /\ remaining' = remaining
       /\ \A p \in Partitions :
            /\ (cb[p].pc = "checkpoint" /\ cb'[p] # cb[p]) =>
                   /\ cb'[p].pc = "idle"
                   /\ nCkpt'[p] = nCkpt[p] + 1
                   /\ remaining' = remaining
            /\ (cb[p].pc = "load" /\ cb'[p] # cb[p]) =>
                   cb'[p].pc = "store" /\ cb'[p].tmp = Val(remaining)
            /\ (cb[p].pc = "store" /\ cb'[p] # cb[p]) =>
                   /\ cb'[p].pc = "test"
                   /\ remaining' = Some(cb[p].tmp - 1)
                   /\ decs' = decs + 1
            /\ (cb[p].pc = "test" /\ cb'[p] # cb[p]) =>
                   cb'[p].pc = "checkpoint" /\ remaining' = remaining
       /\ (pc = "receiving" /\ remaining' # remaining) =>
              \E p \in Partitions : cb[p].pc = "store" /\ cb[p].processed
      ]_vars

\* a skipped event waits for its checkpoint while a matching one was printed
\* and counted
C4_Witness ==
    /\ FilterActive /\ Bounded
    /\ \E p \in Partitions : cb[p].pc = "checkpoint" /\ ~cb[p].processed
    /\ printed = 1 /\ decs = 1 /\ Val(remaining) = max_events - 1

\* C5: every event handed to the callback is checkpointed exactly once, and
\* only when its handling is over: per partition the number of checkpoints is
\* the number of callbacks that returned, and the checkpoint stands at the last
\* of these events.
C5_CheckpointEveryEvent ==
    \A p \in Partitions :
        /\ nCkpt[p] = delivered[p] - (IF InFlight(p) THEN 1 ELSE 0)
        /\ checkpoint[p] = nCkpt[p]

\* a filtered-out event that was not JSON and the event that exhausted the
\* budget have both been checkpointed
C5_Witness ==
    /\ FilterActive /\ stop_event
    /\ warned >= 1 /\ printed = 1
    /\ \E p \in Partitions : nCkpt[p] = 2 /\ ~InFlight(p)

\* C6: an event whose body is not JSON gives one warning and no error; without
\* a filter it is printed and counts toward the budget, with a filter it is
\* skipped; either way its callback goes on to the checkpoint.
C6_MalformedBody ==
    [][\A p \in Partitions, body \in Bodies :
          (~body.json /\ ~InFlight(p) /\ cb'[p] # cb[p] /\ OnEvent(p, body)) =>
              /\ warned' = warned + 1
              /\ raised' = "none" /\ pc' = "receiving"
              /\ IF FilterActive
                 THEN /\ printed' = printed
                      /\ cb'[p].pc = "checkpoint"
                      /\ ~cb'[p].processed
                      /\ remaining' = remaining
                 ELSE /\ printed' = printed + 1
                      /\ cb'[p].processed
                      /\ cb'[p].pc = IF Bounded THEN "load" ELSE "checkpoint"
      ]_vars

\* without a filter, the only event delivered was not JSON: it was printed,
\* counted and checkpointed
C6_Witness ==
    /\ ~FilterActive /\ Bounded
    /\ warned = 1 /\ printed = 1 /\ decs = 1
    /\ \E p \in Partitions : delivered[p] = 1 /\ nCkpt[p] = 1
    /\ \A p \in Partitions : delivered[p] = nCkpt[p]

\* C10: a call of the error callback writes one line to standard error and
\* leaves the budget, the stop signal, the checkpoints and the callbacks in
\* progress as they are; main does not return, and an idle partition can still
\* be handed its next event.
C10_ErrorIsolation ==
    /\ [][errors' # errors =>
            /\ stderr' = stderr + 1
            /\ pc' = "receiving" /\ rc' = None /\ raised' = "none"
            /\ client' = "open"
            /\ UNCHANGED <<remaining, stop_event, checkpoint, nCkpt, cb,
                           delivered, available, printed, decs>>
         ]_vars
    /\ [](\A p \in Partitions :
            (errors > 0 /\ pc = "receiving" /\ available > 0 /\ ~InFlight(p)) =>
                \A body \in Bodies : ENABLED OnEvent(p, body))

\* after an error callback, an event was handled and checkpointed and the
\* consumer is still receiving
C10_Witness ==
    /\ errors > 0 /\ pc = "receiving"
    /\ \E p \in Partitions : nCkpt[p] > 0
    /\ \E p \in Partitions : InFlight(p)

\* ------------------------------------------------------ producer: claims
\* the producer's main returned after a run without failure or interruption
ProducerRanClean ==
    script = "send" /\ pc = "exit" /\ exc = "none" /\ ~IsNone(connection_str)

\* C2: with count = N > 0 the producer never makes more than N sends, each of
\* a batch of one event, and a run without send failure or interruption ends
\* with exactly N events submitted and accepted, the client closed and exit
\* code 0.
C2_ExactlyNSent ==
    (script = "send" /\ count > 0) =>
        /\ attempts <= count
        /\ events_out = attempts
        /\ ProducerRanClean =>
              /\ attempts = count /\ accepted = count /\ sent = count
              /\ client = "closed"
              /\ rc = Some(0)

\* a clean run with the largest count has ended
C2_Witness ==
    ProducerRanClean /\ count = MaxBudget /\ accepted = MaxBudget /\ rc = Some(0)

\* C7: once send_orders has left its try block the client that was
\* constructed is closed, it is closed once, and a send is only ever made on
\* an open client.
C7_ClientReleased ==
    /\ [](script = "send" =>
            /\ closes <= 1
            /\ (pc \in {"send_return", "exit"} /\ (client # "none" \/ attempts > 0))
                  => (client = "closed" /\ closes = 1)
            /\ client = "closed" => pc \in {"send_return", "exit"})
    /\ [][(script = "send" /\ attempts' # attempts) =>
              (client = "open" /\ client' = "open")]_vars

\* send_orders ended on a failed send, after an earlier send was accepted, and
\* the client is closed
C7_Witness ==
    /\ script = "send" /\ pc = "send_return"
    /\ exc = "EventHubError" /\ attempts = 2 /\ accepted = 1
    /\ client = "closed" /\ closes = 1

\* --------------------------------------------------- both scripts: claims
\* the run ended because no connection string was found
MissingSecret == pc = "exit" /\ IsNone(connection_str)
\* the run ended because the connection string has no EntityPath and no
\* --event-hub was given
MissingEntityPath ==
    /\ pc = "exit" /\ ~IsNone(connection_str)
    /\ IsNone(event_hub) \/ Len(Val(event_hub)) = 0
    /\ IsNone(extract_entity_path(Val(connection_str)))
NothingStarted ==
    /\ client = "none" /\ closes = 0
    /\ attempts = 0
    /\ \A p \in Partitions : delivered[p] = 0

\* C8: no error propagates out of main: every run that ends in an error ends
\* with main returning 1 or 2 after one message on standard error.
C8_AllErrorsCaught ==
    pc = "exit" =>
        /\ raised = "none"
        /\ ~IsNone(rc)
        /\ Val(rc) # 0 => (Val(rc) \in {1, 2} /\ stderr = errors + 1)

ReceiveEnded == script = "receive" /\ pc = "exit" /\ ~IsNone(connection_str)

\* the three ways receive_events may end: the budget is exhausted (0), an
\* interruption (0), a fatal error reported on standard error (1)
C11_EndsThreeWays ==
    ReceiveEnded =>
        /\ raised = "none"
        /\ \/ rc = Some(0) /\ ~notice /\ Bounded /\ Val(remaining) <= 0
           \/ rc = Some(0) /\ notice
           \/ rc = Some(1) /\ stderr = errors + 1

\* the callbacks of max_events printed events have returned
C11_BudgetServed ==
    /\ script = "receive" /\ max_events > 0
    /\ printed >= max_events
    /\ \A p \in Partitions : ~InFlight(p)

\* C11: receive_events ends only on an exhausted budget (returns 0), on an
\* interruption (returns 0) or on a fatal error reported on standard error
\* (returns 1); and with max_events = M > 0, once M events that pass the filter
\* have been handled by a client that honours the stop signal, the consumer
\* eventually terminates.
C11_Termination ==
    /\ []C11_EndsThreeWays
    /\ C11_BudgetServed ~> (pc = "exit")

SendFailed == script = "send" /\ attempts > accepted

\* C13: when the k-th send_batch call fails, no further send is attempted, the
\* count of sent orders and of confirmation lines stays at k - 1, the client is
\* closed once by the finally clause, and main writes one message to standard
\* error and returns 1.
C13_SendFailureFatal ==
    /\ [](SendFailed =>
            /\ exc = "EventHubError"
            /\ accepted = attempts - 1
            /\ sent = attempts - 1 /\ confirmed = attempts - 1
            /\ pc \in {"finally", "send_return", "exit"}
            /\ pc # "finally" => (client = "closed" /\ closes = 1)
            /\ pc # "exit" => (IsNone(rc) /\ stderr = 0)
            /\ pc = "exit" => (rc = Some(1) /\ stderr = 1 /\ ~notice))
    /\ [][SendFailed =>
            (attempts' = attempts /\ sent' = sent /\ events_out' = events_out)]_vars

\* the second send failed after the first was accepted, and main returned 1
C13_Witness ==
    /\ SendFailed /\ pc = "exit"
    /\ attempts = 2 /\ sent = 1 /\ confirmed = 1
    /\ client = "closed" /\ rc = Some(1) /\ stderr = 1

\* send_orders was called
SendOrdersCalled == script = "send" /\ ~IsNone(connection_str)
\* the stream name is given or can be taken from the connection string
HubKnown ==
    \/ ~IsNone(event_hub) /\ Len(Val(event_hub)) > 0
    \/ ~IsNone(connection_str) /\ ~IsNone(extract_entity_path(Val(connection_str)))

\* C14: with min_delay > max_delay send_orders raises ValueError before a
\* client is constructed and before an event is built or sent, and main writes
\* one message to standard error and returns 1; with min_delay <= max_delay
\* (equality included) the delay check lets send_orders go on to its loop.
C14_DelayRange ==
    /\ (SendOrdersCalled /\ min_delay > max_delay) =>
          /\ pc \in {"send_orders", "send_return", "exit"}
          /\ client = "none" /\ closes = 0
          /\ batch = 0 /\ attempts = 0 /\ events_out = 0 /\ sent = 0
          /\ pc # "send_orders" => exc = "ValueError"
          /\ pc = "exit" => (rc = Some(1) /\ stderr = 1 /\ ~notice)
    /\ (SendOrdersCalled /\ pc = "send_orders" /\ min_delay <= max_delay
        /\ HubKnown) =>
          ENABLED (SendEnter /\ pc' = "loop" /\ client' = "open")

\* a run with a complete connection string was rejected for its delay range
C14_Witness ==
    /\ SendOrdersCalled /\ HubKnown /\ min_delay > max_delay
    /\ pc = "exit" /\ rc = Some(1) /\ stderr = 1 /\ client = "none"

\* ------------------------------------------------- configuration claims
\* the variables a .env file defines, had the environment been empty
FileDefines(file) == _load_dotenv_if_present(<<>>, file)
\* the value of a variable: the environment's if it has one, else the file's
Effective(env, file, name) ==
    IF name \in DOMAIN env THEN Some(env[name]) ELSE GetEnv(FileDefines(file), name)
\* the connection string the priority rule gives, None if no source has one
ExpectedSecret(scr, cli, env, file) ==
    LET role   == Effective(env, file, EnvNames(scr)[1])
        shared == Effective(env, file, EnvNames(scr)[2])
    IN IF NonBlank(cli) THEN Some(Strip(Val(cli)))
       ELSE IF NonBlank(role) THEN Some(Strip(Val(role)))
       ELSE IF NonBlank(shared) THEN Some(Strip(Val(shared)))
       ELSE None

\* C15: resolve_connection_string gives the trimmed --connection-string value
\* if it is not blank; otherwise the first non-blank value of the role-specific
\* variable, then of the shared one, a variable set in the environment hiding
\* the .env line of the same name; with nothing but a file whose only line is
\* EVENTHUB_CONNECTION_STRING=X it gives X; and when no source has a non-blank
\* value it raises the configuration error (main returns 2).
C15_ResolvePriority ==
    [][pc = "main" =>
          /\ connection_str' = ExpectedSecret(script, cli_value, environ, dotenv)
          /\ IsNone(connection_str') <=> (rc' = Some(2) /\ pc' = "exit")
          /\ (~NonBlank(cli_value) /\ environ = <<>>
              /\ dotenv = Some(<<LINE_SHARED_KEYED>>))
                => connection_str' = Some(CS_KEYED)
      ]_vars

\* with a blank --connection-string the shared variable of the environment was
\* taken although the file has a line for the same name
C15_Witness ==
    /\ pc # "main"
    /\ cli_value = Some(<<" ">>)
    /\ ENV_SHARED \in DOMAIN environ /\ DOMAIN environ = {ENV_SHARED}
    /\ GetEnv(FileDefines(dotenv), ENV_SHARED) = Some(CS_FULL)
    /\ connection_str = Some(Strip(CS_PADDED))

\* env2 has every variable of env, with the value it has in env
KeepsVariables(env, env2) ==
    \A k \in DOMAIN env : k \in DOMAIN env2 /\ env2[k] = env[k]

\* C16: _load_dotenv_if_present leaves every variable that is already set as
\* it is (one set to the empty string included), loading a file a second time
\* changes nothing, and a missing file leaves the environment as it is; the
\* load main performs through resolve_connection_string keeps the variables of
\* the environment it started from.
C16_DotenvIdempotent ==
    /\ [](LET once == _load_dotenv_if_present(environ, dotenv)
          IN /\ KeepsVariables(environ, once)
             /\ _load_dotenv_if_present(once, dotenv) = once
             /\ _load_dotenv_if_present(environ, None) = environ)
    /\ [][pc = "main" => KeepsVariables(environ, environ')]_vars

\* a file with two lines for one variable was loaded into an environment whose
\* shared variable was set to the empty string: that variable is still empty
\* and the other one has the value of its first line
C16_Witness ==
    /\ pc # "main"
    /\ ~IsNone(dotenv) /\ Len(Val(dotenv)) > 2
    /\ DOMAIN environ = {ENV_SEND, ENV_RECEIVE, ENV_SHARED}
    /\ environ[ENV_SHARED] = <<>>
    /\ environ[ENV_SEND] = CS_MANY
    /\ environ[ENV_RECEIVE] = CS_NOPATH

\* ------------------------------------------------------- order records
RECURSIVE SumTotals(_)
\* the sum of the total_price values of a list of items
SumTotals(items) ==
    IF Len(items) = 0 THEN 0 ELSE Head(items).total_price + SumTotals(Tail(items))

\* the record is consistent in the sense of C17
ConsistentOrder(o) ==
    /\ \E i \in 1..Len(STORE_LOCATIONS) :
          /\ o.store_id = STORE_LOCATIONS[i].store_id
          /\ o.store_region = STORE_LOCATIONS[i].region
          /\ o.store_city = STORE_LOCATIONS[i].city
    /\ Len(o.items) > 0
    /\ \A k \in 1..Len(o.items) :
          LET item == o.items[k]
          IN /\ \E i \in 1..Len(PRODUCT_CATALOG) :
                   /\ item.sku = PRODUCT_CATALOG[i].sku
                   /\ item.name = PRODUCT_CATALOG[i].name
             /\ item.quantity \in 1..5
             /\ item.total_price = Round2(item.unit_price * item.quantity)
    /\ o.order_total = SumTotals(o.items)

\* C17: every record build_order_event returns has its store fields from one
\* STORE_LOCATIONS entry, the sku and name of each item from one
\* PRODUCT_CATALOG entry, at least one item, quantities in 1..5, each
\* total_price equal to unit_price * quantity rounded to 2 decimals, and
\* order_total equal to the sum of the total_price values.
C17_OrderConsistent ==
    ~IsNone(order) => ConsistentOrder(Val(order))

\* an order of three units whose drawn price had to be rounded up to the cent
\* was sent and confirmed
C17_Witness ==
    /\ ~IsNone(order) /\ confirmed = 1
    /\ Val(order).items[1].quantity = 3
    /\ Val(order).items[1].unit_price = 33340
    /\ Val(order).order_total = 100020
    /\ Val(order).store_city = "London"
    /\ Val(order).items[1].sku = "SKU-1004"

\* ------------------------------------------------------ entity path claims
\* the segment is an EntityPath segment (key in any case, padding allowed)
IsEntitySegment(segment) == StartsWith(Lower(Strip(segment)), ENTITYPATH_EQ)
\* what follows the first "=" of the segment, trimmed
SegmentValue(segment) ==
    Strip(SubSeq(segment, FirstIndex(segment, "=") + 1, Len(segment)))
\* the trimmed value of the first EntityPath segment with a non-empty value,
\* None if there is none
FirstEntityPath(cs) ==
    LET segments == Split(cs, ";")
        Good(i) == /\ IsEntitySegment(segments[i])
                   /\ Len(SegmentValue(segments[i])) > 0
    IN IF \E i \in 1..Len(segments) : Good(i)
       THEN Some(SegmentValue(segments[
                CHOOSE i \in 1..Len(segments) :
                    Good(i) /\ \A j \in 1..(i - 1) : ~Good(j)]))
       ELSE None
\* --event-hub was given a name
ExplicitHub == ~IsNone(event_hub) /\ Len(Val(event_hub)) > 0

\* C18: extract_entity_path gives the trimmed value of the first EntityPath
\* segment whose value is not empty ("orders" for
\* "Endpoint=sb://x;EntityPath=orders;SharedAccessKey=k") and raises ValueError
\* when there is none; send_orders and receive_events call it only when no
\* event hub name was given, and then use its result as the name.
C18_EntityPath ==
    /\ [](/\ extract_entity_path(CS_KEYED) = Some(ENTITY_ORDERS)
          /\ ~IsNone(connection_str) =>
                extract_entity_path(Val(connection_str))
                    = FirstEntityPath(Val(connection_str)))
    /\ [][(pc \in {"send_orders", "receive_events"} /\ pc' # pc) =>
            IF ExplicitHub THEN event_hub' = event_hub
            ELSE IF script = "send" /\ min_delay > max_delay THEN event_hub' = event_hub
            ELSE IF IsNone(FirstEntityPath(Val(connection_str)))
            THEN /\ event_hub' = event_hub /\ client' = "none"
                 /\ IF script = "send" THEN exc' = "ValueError"
                                       ELSE raised' = "ValueError"
            ELSE event_hub' = FirstEntityPath(Val(connection_str))
         ]_vars

\* the name was taken from the third segment of a connection string: the first
\* has another key, the second an empty value
C18_Witness ==
    /\ client = "open"
    /\ connection_str = Some(CS_MANY)
    /\ event_hub = Some(ENTITY_AB)

\* ------------------------------------------------------ stop signal claims
\* C19: the stop signal is set only by a callback that printed its event,
\* with a bounded budget, when it finds remaining <= 0; with max_events <= 0
\* there is no budget and the signal is never set, so that receive_events ends
\* only on an interruption or an error; neither a callback whose event was
\* filtered out nor the error callback sets it; once set it stays set.
C19_StopSignal ==
    /\ [](script = "receive" =>
            /\ stop_event => (max_events > 0 /\ Bounded /\ printed > 0)
            /\ (max_events <= 0 /\ pc \in {"receiving", "exit"}) =>
                  (~stop_event /\ ~Bounded)
            /\ (max_events <= 0 /\ ReceiveEnded) =>
                  (notice \/ rc = Some(1) \/ raised # "none"))
    /\ [][/\ stop_event => stop_event'
          /\ (~stop_event /\ stop_event') =>
                \E p \in Partitions :
                    /\ cb[p].pc = "test" /\ cb[p].processed
                    /\ cb'[p].pc = "checkpoint"
                    /\ Val(remaining) <= 0
          /\ errors' # errors => stop_event' = stop_event
          /\ \A p \in Partitions :
                (cb'[p] # cb[p] /\ ~cb'[p].processed) => stop_event' = stop_event
         ]_vars

\* with a filter, an event was skipped, the error callback ran, and the
\* callback of the one printed event has set the signal
C19_Witness ==
    /\ pc = "receiving" /\ FilterActive /\ stop_event
    /\ errors > 0 /\ printed = 1
    /\ \E p \in Partitions : delivered[p] > 0 /\ nCkpt[p] = delivered[p]
                             /\ \E q \in Partitions \ {p} : cb[q].pc = "checkpoint"

\* ------------------------------------------------ producer: counting claims
\* the confirmation lines follow the sends, the sends follow one another, and
\* an unbounded loop is only left through an exception
SendsInOrder ==
    /\ [](script = "send" =>
            /\ confirmed = sent
            /\ confirmed <= accepted
            /\ batch <= 1 /\ events_out = attempts
            /\ attempts - accepted <= 1
            /\ (count <= 0 /\ pc \in {"finally", "send_return", "exit"}
                /\ ~IsNone(connection_str) /\ client # "none") =>
                  exc \in {"KeyboardInterrupt", "EventHubError"})
    /\ [][script = "send" =>
            /\ confirmed' # confirmed =>
                  (confirmed' = confirmed + 1 /\ accepted = confirmed'
                   /\ accepted' = accepted)
            /\ attempts' # attempts =>
                  (attempts' = attempts + 1 /\ accepted = attempts
                   /\ sent = attempts)
            /\ (count <= 0 /\ pc = "loop" /\ pc' # pc) =>
                  (pc' = "create_batch" \/ exc' = "KeyboardInterrupt")
         ]_vars

\* C20 as stated: in every state of send_orders `sent` is the number of
\* send_batch calls that returned; a confirmation line is printed only after
\* the send of its order succeeded; a send starts only when every earlier one
\* has returned; with count <= 0 the loop is left only by an interruption or a
\* failure.
C20_SentEqualsAccepted ==
    /\ [](script = "send" => sent = accepted)
    /\ SendsInOrder

\* C20 as amended: `sent` never exceeds the number of send_batch calls that
\* returned and is one behind it exactly between the return of send_batch and
\* `sent += 1` (also when an interruption ends the run at that point); it
\* equals that number at the loop test, during the build, the send and the
\* sleep; the other parts are as stated.
C20_SentFollowsAccepted ==
    /\ [](script = "send" =>
            /\ sent <= accepted /\ accepted <= sent + 1
            /\ pc \in {"loop", "create_batch", "send", "sleep"} => sent = accepted
            /\ pc = "count" => accepted = sent + 1
            /\ (accepted = sent + 1 /\ pc # "count") => exc = "KeyboardInterrupt")
    /\ SendsInOrder

\* an unbounded run ended on the failure of its third send, two orders
\* counted and confirmed
C20_Witness ==
    /\ script = "send" /\ count < 0 /\ pc = "exit"
    /\ exc = "EventHubError"
    /\ attempts = 3 /\ accepted = 2 /\ sent = 2 /\ confirmed = 2

====
